---- MODULE Spec2Model ----
(***************************************************************************)
(* A model of the datetime library: GCalendar (src/src/gcalendar.rs), the  *)
(* Gregorian broken-down time with its epoch decomposition, mktime, ISO    *)
(* week and directive formatter, and Date (src/src/date.rs), the wrapper   *)
(* whose strftime scans a format string.                                   *)
(*                                                                         *)
(* Numbers.  The library computes in `uint`, the unsigned machine word.    *)
(* TLC's integers are 32-bit signed, so                                    *)
(*   - an epoch value in milliseconds is kept as a two-digit numeral       *)
(*     [secs, ms] standing for secs * 1000 + ms (0 <= ms < 1000), and the  *)
(*     division and remainder by 86400000 are computed on that numeral;    *)
(*   - the word is modelled with UintModulus = 2^30 values.  The only      *)
(*     places where the library's arithmetic leaves the naturals are the   *)
(*     subtractions of the 'U', 'W' and ISO week code, whose operands are  *)
(*     below 2^11; they wrap in the model as they do in the machine.       *)
(*                                                                         *)
(* Text.  A ~str is a TLA+ string; a char is a one-character string; a     *)
(* format string is a sequence of chars, so that it can be scanned.        *)
(***************************************************************************)
EXTENDS Integers, Sequences, FiniteSets, TLC

VARIABLES
    gcal,         \* the GCalendar at hand: a Date's gcal, or one built by GCalendar::new
    since_epoch,  \* the Date's since_epoch, [secs, ms]; NoEpoch for a bare GCalendar
    out,          \* the last direct get_date call, [ch, kind, val], or NoCall
    format,       \* strftime: the format string being scanned
    pos,          \* strftime: the reader's position, 1-based index of the next char
    buf,          \* strftime: the result built so far
    passed,       \* strftime: the chars handed to get_date so far, in order
    pc,           \* "idle", "scan" (inside strftime), "done" (strftime returned),
                  \* "failed" (the task failed inside strftime)
    replaced      \* history: the [gcal, since_epoch] that the last step's from_epoch
                  \* replaced, NoReplaced when the last step was another call

vars == <<gcal, since_epoch, out, format, pos, buf, passed, pc, replaced>>

(***************************************************************************)
(* Bounds of the model.                                                    *)
(***************************************************************************)
\* CalSpec decomposes every day 0..MaxDay since the epoch (1970-01-01 .. 1980-12-31).
MaxDay == 4017
\* strftime is given every format string of at most MaxLen chars of FormatAlphabet.
MaxLen == 3
\* GCalendar::new is given wday in 0..MaxNewWday and month in 0..MaxNewMonth.
MaxNewWday == 8
MaxNewMonth == 13

(***************************************************************************)
(* Machine words.                                                          *)
(***************************************************************************)
UintModulus == 2^30

\* a - b in uint: wraps below zero.
usub(a, b) == IF a >= b THEN a - b ELSE UintModulus - (b - a)

\* a + b in uint: wraps above the word.
uadd(a, b) == IF a < UintModulus - b THEN a + b ELSE a - (UintModulus - b)

\* `x as int`: the same bits read as a signed word.
as_int(x) == IF x >= UintModulus \div 2 THEN x - UintModulus ELSE x

\* The signed `%` and `/` of the language truncate towards zero.
irem(a, b) == IF a >= 0 THEN a % b ELSE -((-a) % b)
idiv(a, b) == IF a >= 0 THEN a \div b ELSE -((-a) \div b)

(***************************************************************************)
(* gcalendar.rs: constants, leap years.                                    *)
(***************************************************************************)
DAYSPERLYEAR == 366
DAYSPERNYEAR == 365
DAYSBEFOREMONTH ==
    << <<0, 31, 59, 90, 120, 151, 181, 212, 243, 273, 304, 334, 365>>,
       <<0, 31, 60, 91, 121, 152, 182, 213, 244, 274, 305, 335, 366>> >>

\* Variant: the rule for the years divisible by 400 left out.
is_leap_year_no_400(year) == (year % 4 = 0) /\ (year % 100 # 0)

is_leap_year(year) ==
    (year % 4 = 0) /\ ((year % 100 # 0) \/ (year % 400 = 0))

\* Variant: every year taken for a normal year.
year_size_no_leap(year) == DAYSPERNYEAR

year_size(year) == IF is_leap_year(year) THEN DAYSPERLYEAR ELSE DAYSPERNYEAR

(***************************************************************************)
(* GCalendar: constructors.                                                *)
(***************************************************************************)
new(sec, min, hour, mday, month, year, wday, yday) ==
    [sec |-> sec, min |-> min, hour |-> hour, mday |-> mday, month |-> month,
     year |-> year, wday |-> wday, yday |-> yday]

millisecs_day == 86400000

\* since_epoch % millisecs_day and since_epoch / millisecs_day, on the numeral.
epoch_rem_day(e) == (e.secs % (millisecs_day \div 1000)) * 1000 + e.ms
epoch_div_day(e) == e.secs \div (millisecs_day \div 1000)

\* while (dayno >= year_size(year)) { dayno -= year_size(year); year += 1; }
\* Variant: the loop condition written with > for >=.
RECURSIVE year_walk_gt(_, _)
year_walk_gt(dayno, year) ==
    IF dayno > year_size(year)
    THEN year_walk_gt(dayno - year_size(year), year + 1)
    ELSE [dayno |-> dayno, year |-> year]

RECURSIVE year_walk(_, _)
year_walk(dayno, year) ==
    IF dayno >= year_size(year)
    THEN year_walk(dayno - year_size(year), year + 1)
    ELSE [dayno |-> dayno, year |-> year]

\* while (dayno < ip[month]) { month -= 1; }      (ip is indexed from 0)
RECURSIVE month_scan(_, _, _)
month_scan(dayno, ip, month) ==
    IF dayno < ip[month + 1] THEN month_scan(dayno, ip, month - 1) ELSE month

new_from_epoch(epoch) ==
    LET epoch_year == 1970
        dayclock0 == epoch_rem_day(epoch)
        dayno0 == epoch_div_day(epoch)
        hour == dayclock0 \div 3600000
        dayclock1 == dayclock0 - (hour * 3600000)
        min == dayclock1 \div 60000
        dayclock2 == dayclock1 - (min * 60000)
        sec == dayclock2 \div 1000
        wday == (dayno0 + 4) % 7
        w == year_walk(dayno0, epoch_year)
        yday == w.dayno
        ip == DAYSBEFOREMONTH[IF is_leap_year(w.year) THEN 2 ELSE 1]
        month == month_scan(w.dayno, ip, 11)
        dayno == w.dayno - ip[month + 1]
    IN  [sec |-> sec, min |-> min, hour |-> hour, mday |-> dayno + 1,
         month |-> month + 1, year |-> w.year, wday |-> wday, yday |-> yday]

(***************************************************************************)
(* GCalendar: mktime.                                                      *)
(***************************************************************************)
\* while (y > year0) { if is_leap_year(y) {intervening_leap_days += 1;} y -= 1; }
RECURSIVE leap_loop(_, _, _)
leap_loop(y, year0, intervening_leap_days) ==
    IF y > year0
    THEN leap_loop(y - 1, year0,
                   IF is_leap_year(y) THEN intervening_leap_days + 1
                                      ELSE intervening_leap_days)
    ELSE intervening_leap_days

\* Every record of the model has year1 >= year0 and the other fields of the
\* second operand 0, so no difference here leaves the naturals.
ydhms_diff(year1, yday1, hour1, min1, sec1, year0, yday0, hour0, min0, sec0) ==
    LET intervening_leap_days == leap_loop(year1, year0, 0)
        years == year1 - year0
        days == 365 * years + yday1 - yday0 + intervening_leap_days
        hours == 24 * days + hour1 - hour0
        minutes == 60 * hours + min1 - min0
    IN  60 * minutes + sec1 - sec0

mktime(self) ==
    ydhms_diff(self.year, self.yday, self.hour, self.min, self.sec,
               1970, 0, 0, 0, 0)

(***************************************************************************)
(* format!: numbers to text.                                               *)
(***************************************************************************)
DigitChar == <<"0", "1", "2", "3", "4", "5", "6", "7", "8", "9">>

\* "{}" and to_str() of a uint: its decimal digits.
RECURSIVE to_str(_)
to_str(n) ==
    IF n < 10 THEN DigitChar[n + 1]
    ELSE to_str(n \div 10) \o DigitChar[(n % 10) + 1]

\* Padding on the left up to a minimum width; longer text is left alone.
RECURSIVE pad(_, _, _)
pad(s, width, fill) ==
    IF Len(s) >= width THEN s ELSE pad(fill \o s, width, fill)

\* "{:02u}", "{:03u}", "{:09u}" and "{:02d}" of a non-negative number.
fmt_zero(n, width) == pad(to_str(n), width, "0")

\* "{:2u}".
fmt_space(n, width) == pad(to_str(n), width, " ")

(***************************************************************************)
(* GCalendar: ISO 8601 weeks.                                              *)
(***************************************************************************)
\* yday and wday arrive as uint and are read as int.
iso_week_days(yday_u, wday_u) ==
    LET yday == as_int(yday_u)
        wday == as_int(wday_u)
        iso_week_start_wday == 1
        iso_week1_wday == 4
        yday_minimum == 366
        big_enough_multiple_of_7 == (idiv(yday_minimum, 7) + 2) * 7
    IN  yday - irem(yday - wday + iso_week1_wday + big_enough_multiple_of_7, 7)
            + iso_week1_wday - iso_week_start_wday

\* Variant: the previous-year branch adds the size of the record's own year.
iso_week_resolve_own_year(self) ==
    LET days0 == iso_week_days(self.yday, self.wday)
    IN  IF days0 < 0
        THEN [year |-> usub(self.year, 1),
              days |-> iso_week_days(uadd(self.yday, year_size(self.year)), self.wday)]
        ELSE LET d == iso_week_days(usub(self.yday, year_size(self.year)), self.wday)
             IN  IF 0 <= d
                 THEN [year |-> uadd(self.year, 1), days |-> d]
                 ELSE [year |-> self.year, days |-> days0]

\* The year and days that iso_week settles on before it formats them.
iso_week_resolve(self) ==
    LET days0 == iso_week_days(self.yday, self.wday)
    IN  IF days0 < 0
        THEN LET year == usub(self.year, 1)
             IN  [year |-> year,
                  days |-> iso_week_days(uadd(self.yday, year_size(year)), self.wday)]
        ELSE LET d == iso_week_days(usub(self.yday, year_size(self.year)), self.wday)
             IN  IF 0 <= d
                 THEN [year |-> uadd(self.year, 1), days |-> d]
                 ELSE [year |-> self.year, days |-> days0]

iso_week(self, ch) ==
    LET r == iso_week_resolve(self)
    IN  CASE ch = "G" -> to_str(r.year)
          [] ch = "g" -> fmt_zero(((r.year % 100) + 100) % 100, 2)
          [] ch = "V" -> fmt_zero(idiv(r.days, 7) + 1, 2)
          [] OTHER -> ""

(***************************************************************************)
(* GCalendar: get_date.                                                    *)
(***************************************************************************)
\* The value rdr.read_char() returns at the end of the input (date.rs:81):
\* no character of any format string.
EOFCHAR == "<eof>"

\* let die = || format!("strftime: can't understand this format {} ", ch);
\* die returns this text to its caller as the value of get_date.
die(ch) == "strftime: can't understand this format " \o ch \o " "

WeekdayNames ==
    <<"Sunday", "Monday", "Tuesday", "Wednesday", "Thursday", "Friday", "Saturday">>
WeekdayAbbrs == <<"Sun", "Mon", "Tue", "Wed", "Thu", "Fri", "Sat">>
MonthNames ==
    <<"January", "February", "March", "April", "May", "June", "July", "August",
      "September", "October", "November", "December">>
MonthAbbrs ==
    <<"Jan", "Feb", "Mar", "Apr", "May", "Jun", "Jul", "Aug", "Sep", "Oct", "Nov",
      "Dec">>

\* The numbers the 'U' and 'W' arms format, computed in uint from left to right.
week_U(self) == uadd(usub(self.yday, self.wday), 7) \div 7
\* Variant: the + 7 that brings day_of_week - 1 back above zero left out.
week_W_no_plus_7(self) ==
    uadd(usub(self.yday, usub(self.wday, 1) % 7), 7) \div 7

week_W(self) ==
    uadd(usub(self.yday, uadd(usub(self.wday, 1), 7) % 7), 7) \div 7

RECURSIVE get_date(_, _)
get_date(self, ch) ==
    CASE ch = "A" -> IF self.wday \in 0..6 THEN WeekdayNames[self.wday + 1] ELSE die(ch)
      [] ch = "a" -> IF self.wday \in 0..6 THEN WeekdayAbbrs[self.wday + 1] ELSE die(ch)
      [] ch = "B" -> IF self.month \in 1..12 THEN MonthNames[self.month] ELSE die(ch)
      [] ch \in {"b", "h"} ->
            IF self.month \in 1..12 THEN MonthAbbrs[self.month] ELSE die(ch)
      [] ch = "C" -> fmt_zero(self.year \div 100, 2)
      [] ch = "c" -> get_date(self, "a") \o " " \o get_date(self, "b") \o " "
                     \o get_date(self, "e") \o " " \o get_date(self, "T") \o " "
                     \o get_date(self, "Y")
      [] ch \in {"D", "x"} -> get_date(self, "m") \o "/" \o get_date(self, "d")
                              \o "/" \o get_date(self, "y")
      [] ch = "d" -> fmt_zero(self.mday, 2)
      [] ch = "e" -> fmt_space(self.mday, 2)
      [] ch = "f" -> fmt_zero(self.sec, 9)
      [] ch = "F" -> get_date(self, "Y") \o "-" \o get_date(self, "m") \o "-"
                     \o get_date(self, "d")
      [] ch = "G" -> iso_week(self, "G")
      [] ch = "g" -> iso_week(self, "g")
      [] ch = "H" -> fmt_zero(self.hour, 2)
      [] ch = "I" -> fmt_zero(IF self.hour > 12 THEN self.hour - 12 ELSE self.hour, 2)
      [] ch = "j" -> fmt_zero(self.yday + 1, 3)
      [] ch = "k" -> fmt_space(self.hour, 2)
      [] ch = "l" -> LET h0 == IF self.hour = 0 THEN 12 ELSE self.hour
                         h == IF h0 > 12 THEN h0 - 12 ELSE h0
                     IN  fmt_space(h, 2)
      [] ch = "M" -> fmt_zero(self.min, 2)
      [] ch = "m" -> fmt_zero(self.month, 2)
      [] ch = "n" -> "\n"
      [] ch = "P" -> IF self.hour < 12 THEN "am" ELSE "pm"
      [] ch = "p" -> IF self.hour < 12 THEN "AM" ELSE "PM"
      [] ch = "R" -> get_date(self, "H") \o ":" \o get_date(self, "M")
      [] ch = "r" -> get_date(self, "I") \o ":" \o get_date(self, "M") \o ":"
                     \o get_date(self, "S") \o " " \o get_date(self, "p")
      [] ch = "S" -> fmt_zero(self.sec, 2)
      [] ch = "s" -> to_str(mktime(self))
      [] ch \in {"T", "X"} -> get_date(self, "H") \o ":" \o get_date(self, "M")
                              \o ":" \o get_date(self, "S")
      [] ch = "t" -> "\t"
      [] ch = "U" -> fmt_zero(week_U(self), 2)
      [] ch = "u" -> to_str(IF self.wday = 0 THEN 7 ELSE self.wday)
      [] ch = "V" -> iso_week(self, "V")
      [] ch = "v" -> get_date(self, "e") \o "-" \o get_date(self, "b") \o "-"
                     \o get_date(self, "Y")
      [] ch = "W" -> fmt_zero(week_W(self), 2)
      [] ch = "w" -> to_str(self.wday)
      [] ch = "Y" -> to_str(self.year)
      [] ch = "y" -> fmt_zero(self.year % 100, 2)
      [] ch = "Z" -> "UTC"
      [] ch = "z" -> "-0000"
      [] ch = "%" -> "%"
      [] OTHER -> die(ch)

(***************************************************************************)
(* Inputs.                                                                 *)
(***************************************************************************)
NoEpoch == [secs |-> -1, ms |-> 0]
NoCall == [ch |-> "", kind |-> "none", val |-> ""]
NoReplaced == [gcal |-> new(0, 0, 0, 0, 0, 0, 0, 0), since_epoch |-> NoEpoch]

\* The epoch values of the library's tests (gcalendar.rs:401, date.rs:152),
\* the epoch itself, and 1972-02-29T23:59:59.999.
RefEpochs ==
    { [secs |-> 433166421, ms |-> 23], [secs |-> 1234567890, ms |-> 543],
      [secs |-> 0, ms |-> 0], [secs |-> 68255999, ms |-> 999] }

\* Times of day, as seconds and milliseconds: midnight, 12:00:21.023, the last
\* millisecond of the day.
DayClocks ==
    { [secs |-> 0, ms |-> 0], [secs |-> 43221, ms |-> 23], [secs |-> 86399, ms |-> 999] }

Epochs ==
    { [secs |-> d * 86400 + c.secs, ms |-> c.ms] : d \in 0..MaxDay, c \in DayClocks }
        \cup RefEpochs

\* The directive characters get_date recognizes.
Recognized ==
    { "A", "a", "B", "b", "h", "C", "c", "D", "x", "d", "e", "f", "F", "G", "g",
      "H", "I", "j", "k", "l", "M", "m", "n", "P", "p", "R", "r", "S", "s", "T",
      "X", "t", "U", "u", "V", "v", "W", "w", "Y", "y", "Z", "z", "%" }

\* Characters handed to get_date directly: the recognized ones and two others.
DirectiveChars == Recognized \cup {"Q", "E"}

\* The directives whose value is calendar arithmetic.
CalDirectives == {"s", "G", "g", "V", "U", "W"}

FormatAlphabet == {"%", "a", "Q"}

\* "%c" (ctime, date.rs:112) and "%Y-%m-%d %H:%M:%S" (iso_format, date.rs:104).
LibraryFormats ==
    { <<"%", "c">>,
      <<"%", "Y", "-", "%", "m", "-", "%", "d", " ", "%", "H", ":", "%", "M", ":",
        "%", "S">> }

Formats ==
    UNION { [1..n -> FormatAlphabet] : n \in 0..MaxLen } \cup LibraryFormats

(***************************************************************************)
(* Operations.                                                             *)
(***************************************************************************)
Quiescent == pc \in {"idle", "done", "failed"}

NoStrftime ==
    /\ format' = <<>>
    /\ pos' = 1
    /\ buf' = ""
    /\ passed' = <<>>
    /\ pc' = "idle"

\* Date::from_epoch(epoch_date)
FromEpoch(epoch_date) ==
    /\ Quiescent
    /\ gcal' = new_from_epoch(epoch_date)
    /\ since_epoch' = epoch_date
    /\ out' = NoCall
    /\ replaced' = [gcal |-> gcal, since_epoch |-> since_epoch]
    /\ NoStrftime

\* epoch_date + 86400000 on the numeral.
epoch_plus_day(e) == [secs |-> e.secs + (millisecs_day \div 1000), ms |-> e.ms]

\* Date::from_epoch(d.get_time() + 86400000) for the Date d at hand, while
\* the day after is within the days of the model.
FromEpochNextDay ==
    /\ since_epoch # NoEpoch
    /\ epoch_div_day(since_epoch) < MaxDay
    /\ FromEpoch(epoch_plus_day(since_epoch))

\* GCalendar::new(21, 0, 12, 23, month, 1983, wday, 265): the record of the
\* test at gcalendar.rs:390 with the two table indices varied.
New(month, wday) ==
    /\ Quiescent
    /\ gcal' = new(21, 0, 12, 23, month, 1983, wday, 265)
    /\ since_epoch' = NoEpoch
    /\ out' = NoCall
    /\ replaced' = NoReplaced
    /\ NoStrftime

\* gcal.get_date(ch), called directly: the value is a ~str whatever ch is.
GetDate(ch) ==
    /\ Quiescent
    /\ out' = [ch |-> ch, kind |-> "str", val |-> get_date(gcal, ch)]
    /\ replaced' = NoReplaced
    /\ UNCHANGED <<gcal, since_epoch>>
    /\ NoStrftime

\* date.strftime(fmt): let mut buf = ~""; the reader is at the start.
StrftimeBegin(fmt) ==
    /\ Quiescent
    /\ since_epoch # NoEpoch
    /\ format' = fmt
    /\ pos' = 1
    /\ buf' = ""
    /\ passed' = <<>>
    /\ pc' = "scan"
    /\ out' = NoCall
    /\ replaced' = NoReplaced
    /\ UNCHANGED <<gcal, since_epoch>>

\* One turn of the loop, arm `ch => buf.push_char(ch)`.
StrftimeLiteral ==
    /\ pc = "scan"
    /\ pos <= Len(format)
    /\ format[pos] # "%"
    /\ buf' = buf \o format[pos]
    /\ pos' = pos + 1
    /\ UNCHANGED <<gcal, since_epoch, replaced, out, format, passed, pc>>

\* Variant: the directive character is looked at but left in the reader.
StrftimeDirective_not_consumed ==
    /\ pc = "scan"
    /\ pos < Len(format)
    /\ format[pos] = "%"
    /\ passed' = Append(passed, format[pos + 1])
    /\ buf' = buf \o get_date(gcal, format[pos + 1])
    /\ pos' = pos + 1
    /\ UNCHANGED <<gcal, since_epoch, replaced, out, format, pc>>

\* One turn of the loop, arm '%', with a character left to read.
StrftimeDirective ==
    /\ pc = "scan"
    /\ pos < Len(format)
    /\ format[pos] = "%"
    /\ passed' = Append(passed, format[pos + 1])
    /\ buf' = buf \o get_date(gcal, format[pos + 1])
    /\ pos' = pos + 2
    /\ UNCHANGED <<gcal, since_epoch, replaced, out, format, pc>>

\* One turn of the loop, arm '%', with the reader at the end of the input:
\* read_char() returns EOFCHAR, which get_date receives as its directive and
\* hands to die.  EOFCHAR is no Unicode scalar value, and what format! makes
\* of it is not fixed by the source: some text, or the failure of the task.
StrftimeDirectiveAtEof ==
    /\ pc = "scan"
    /\ pos = Len(format)
    /\ format[pos] = "%"
    /\ passed' = Append(passed, EOFCHAR)
    /\ pos' = pos + 1
    /\ \/ buf' = buf \o get_date(gcal, EOFCHAR) /\ pc' = pc
       \/ buf' = buf /\ pc' = "failed"
    /\ UNCHANGED <<gcal, since_epoch, replaced, out, format>>

\* while !rdr.eof() ends; strftime returns buf.
StrftimeReturn ==
    /\ pc = "scan"
    /\ pos > Len(format)
    /\ pc' = "done"
    /\ UNCHANGED <<gcal, since_epoch, replaced, out, format, pos, buf, passed>>

(***************************************************************************)
(* Specifications.                                                         *)
(*   Spec:    formatting.  A Date of one of RefEpochs, or a GCalendar      *)
(*            built by GCalendar::new; get_date with every directive       *)
(*            character; strftime with every format of Formats.            *)
(*   CalSpec: calendar arithmetic.  A Date of any of Epochs; get_date      *)
(*            with the directives of CalDirectives; a new Date one day     *)
(*            after the Date at hand, or at one of RefEpochs.              *)
(***************************************************************************)
InitOf(epochs) ==
    /\ \E e \in epochs : gcal = new_from_epoch(e) /\ since_epoch = e
    /\ out = NoCall
    /\ format = <<>>
    /\ pos = 1
    /\ buf = ""
    /\ passed = <<>>
    /\ pc = "idle"
    /\ replaced = NoReplaced

Init == InitOf(RefEpochs)

Next ==
    \/ \E e \in RefEpochs : FromEpoch(e)
    \/ \E month \in 0..MaxNewMonth, wday \in 0..MaxNewWday : New(month, wday)
    \/ \E ch \in DirectiveChars : GetDate(ch)
    \/ \E fmt \in Formats : StrftimeBegin(fmt)
    \/ StrftimeLiteral
    \/ StrftimeDirective
    \/ StrftimeDirectiveAtEof
    \/ StrftimeReturn

Spec == Init /\ [][Next]_vars

CalInit == InitOf(Epochs)

CalNext ==
    \/ \E e \in RefEpochs : FromEpoch(e)
    \/ FromEpochNextDay
    \/ \E ch \in CalDirectives : GetDate(ch)

CalSpec == CalInit /\ [][CalNext]_vars

(***************************************************************************)
(* The Gregorian calendar, stated without the library's definitions.       *)
(***************************************************************************)
IsDate == since_epoch # NoEpoch

\* Whole days and whole seconds of the Date's epoch value.
DaysSinceEpoch == since_epoch.secs \div 86400
SecsSinceEpoch == since_epoch.secs

GregorianLeap(y) == (y % 4 = 0 /\ y % 100 # 0) \/ y % 400 = 0
GregorianYearLen(y) == IF GregorianLeap(y) THEN 366 ELSE 365

\* Leap years among 1..n.
LeapsThrough(n) == (n \div 4) - (n \div 100) + (n \div 400)

\* Days from 1970-01-01 to the first of January of year y >= 1970.
DaysBeforeYear(y) == 365 * (y - 1970) + LeapsThrough(y - 1) - LeapsThrough(1969)

GregorianMonthLen(y, m) ==
    IF m = 2 THEN (IF GregorianLeap(y) THEN 29 ELSE 28)
    ELSE IF m \in {4, 6, 9, 11} THEN 30 ELSE 31

RECURSIVE DaysBeforeMonth(_, _)
DaysBeforeMonth(y, m) ==
    IF m <= 1 THEN 0 ELSE DaysBeforeMonth(y, m - 1) + GregorianMonthLen(y, m - 1)

(***************************************************************************)
(* C1.  Round trip: for a Date of epoch value e, mktime of its record      *)
(* times 1000 is e - (e mod 1000), that is mktime = e div 1000, and the    *)
(* 's' directive prints that number.                                       *)
(***************************************************************************)
C1_RoundTrip ==
    IsDate =>
        /\ mktime(gcal) = SecsSinceEpoch
        /\ out.ch = "s" => out.val = to_str(SecsSinceEpoch)

C9_LeapDaysStrictlyBetween ==
    IsDate =>
        leap_loop(gcal.year, 1970, 0)
            = Cardinality({y \in 1971..(gcal.year - 1) : GregorianLeap(y)})

(***************************************************************************)
(* ISO 8601 weeks, stated on the day count.  Day 0 is a Thursday, so the   *)
(* Monday-to-Sunday week of day D starts (D + 3) mod 7 days before D and   *)
(* its Thursday is three days after that Monday.                           *)
(***************************************************************************)
ThursdayOfWeek(D) == D - ((D + 3) % 7) + 3

\* The calendar year holding day D, which is next to the year given.
YearHolding(D, near) ==
    CHOOSE y \in (near - 1)..(near + 1) :
        DaysBeforeYear(y) <= D /\ D < DaysBeforeYear(y + 1)

\* The place of day D, a Thursday, among the Thursdays of its year y.
ThursdayOrdinal(D, y) == ((D - DaysBeforeYear(y)) \div 7) + 1

(***************************************************************************)
(* C8.  For a record derived from an epoch value, 'G' is the calendar year *)
(* holding the Thursday of the date's Monday-to-Sunday week, which is      *)
(* year - 1, year or year + 1; 'V' is the ordinal of that Thursday among   *)
(* the Thursdays of that year, in 1..53; 'g' is the 'G' value mod 100.     *)
(***************************************************************************)
C8_IsoWeek ==
    IsDate =>
        LET thu == ThursdayOfWeek(DaysSinceEpoch)
            y == YearHolding(thu, gcal.year)
            v == ThursdayOrdinal(thu, y)
        IN  /\ \E n \in (gcal.year - 1)..(gcal.year + 1) :
                   DaysBeforeYear(n) <= thu /\ thu < DaysBeforeYear(n + 1)
            /\ v \in 1..53
            /\ get_date(gcal, "G") = to_str(y)
            /\ get_date(gcal, "V") = fmt_zero(v, 2)
            /\ get_date(gcal, "g") = fmt_zero(y % 100, 2)
            /\ out.ch = "G" => out.val = to_str(y)
            /\ out.ch = "V" => out.val = fmt_zero(v, 2)
            /\ out.ch = "g" => out.val = fmt_zero(y % 100, 2)

\* 'V' was asked of 1971-01-01, a Friday: week 53 of the week-year 1970.
C8_Witness ==
    /\ IsDate
    /\ gcal.year = 1971 /\ gcal.yday = 0
    /\ out.ch = "V" /\ out.val = "53"

(***************************************************************************)
(* C10.  For a record derived from an epoch value, the 'U' and 'W' week    *)
(* numbers the code computes in wrapping machine words are the values of   *)
(* (day_of_year - day_of_week + 7) / 7 and                                 *)
(* (day_of_year - ((day_of_week - 1 + 7) mod 7) + 7) / 7 over the          *)
(* integers; each is in 0..53 and is the number of Sundays (for 'U') or    *)
(* Mondays (for 'W') from the first of January up to and including the     *)
(* date.                                                                   *)
(***************************************************************************)
\* The days 0..yday of the record's year that fall on weekday w.
WeekdaysUpTo(self, w) ==
    {k \in 0..self.yday : (self.wday + 7 * 53 + k - self.yday) % 7 = w}

C10_WeekNumbers ==
    IsDate =>
        LET u == (gcal.yday - gcal.wday + 7) \div 7
            w == (gcal.yday - ((gcal.wday - 1 + 7) % 7) + 7) \div 7
        IN  /\ week_U(gcal) = u
            /\ week_W(gcal) = w
            /\ u \in 0..53
            /\ w \in 0..53
            /\ u = Cardinality(WeekdaysUpTo(gcal, 0))
            /\ w = Cardinality(WeekdaysUpTo(gcal, 1))
            /\ out.ch = "U" => out.val = fmt_zero(u, 2)
            /\ out.ch = "W" => out.val = fmt_zero(w, 2)

\* 'W' was asked of a Sunday among the first six days of a year: both
\* day_of_week - 1 and day_of_year - 6 go below zero.
C10_Witness ==
    /\ IsDate
    /\ gcal.wday = 0 /\ gcal.yday < 6
    /\ out.ch = "W" /\ out.val = "00"

(***************************************************************************)
(* Format strings, read as the claims read them.                           *)
(***************************************************************************)
Range(t) == {t[i] : i \in 1..Len(t)}

\* One piece per element, in order: a '%' with the character after it is the
\* expansion of that character, any other character is itself.  (A final '%'
\* with nothing after it has no piece here.)
RECURSIVE Pieces(_, _)
Pieces(self, t) ==
    IF t = <<>> THEN ""
    ELSE IF Head(t) # "%" THEN Head(t) \o Pieces(self, Tail(t))
    ELSE IF Len(t) = 1 THEN ""
    ELSE get_date(self, t[2]) \o Pieces(self, SubSeq(t, 3, Len(t)))

\* The characters of t one after the other.
RECURSIVE Join(_)
Join(t) == IF t = <<>> THEN "" ELSE Head(t) \o Join(Tail(t))

\* t ends in a '%' that is not the code of a '%' before it.
RECURSIVE TrailingPercent(_)
TrailingPercent(t) ==
    IF t = <<>> THEN FALSE
    ELSE IF Head(t) # "%" THEN TrailingPercent(Tail(t))
    ELSE IF Len(t) = 1 THEN TRUE
    ELSE TrailingPercent(SubSeq(t, 3, Len(t)))

(***************************************************************************)
(* C4.  strftime scans the format left to right and its output is the      *)
(* in-order concatenation of one piece per element: for each '%' the       *)
(* expansion by get_date of the one character after it, which is consumed  *)
(* and not copied, and for any other character that character.  So what    *)
(* has been built when the reader stands at pos is the pieces of the       *)
(* format before pos, and what is returned is the pieces of the format.    *)
(* The empty format gives "", a format without '%' gives itself, "%%"      *)
(* gives "%".  (A '%' with no character after it is C6's case.)            *)
(***************************************************************************)
C4_StrftimePieces ==
    (pc \in {"scan", "done"} /\ EOFCHAR \notin Range(passed)) =>
        /\ buf = Pieces(gcal, SubSeq(format, 1, pos - 1))
        /\ pc = "done" =>
              /\ buf = Pieces(gcal, format)
              /\ format = <<>> => buf = ""
              /\ "%" \notin Range(format) => buf = Join(format)
              /\ format = <<"%", "%">> => buf = "%"

\* strftime("a%a") has returned "aFri" for the Date of 1234567890543.
C4_Witness ==
    /\ pc = "done"
    /\ format = <<"a", "%", "a">>
    /\ buf = "aFri"

(***************************************************************************)
(* C5.  For a directive character outside the recognized table, get_date   *)
(* fails with an UnsupportedDirective outcome carrying the character, not  *)
(* a string result; and strftime of a format holding such a directive      *)
(* does not return text.                                                   *)
(***************************************************************************)
C5_UnsupportedDirectiveFails ==
    /\ (out # NoCall /\ out.ch \notin Recognized) =>
          (out.kind = "UnsupportedDirective" /\ out.val = out.ch)
    /\ pc = "done" => Range(passed) \subseteq Recognized \cup {EOFCHAR}

(***************************************************************************)
(* C6.  For a format whose last character is an unescaped '%', strftime    *)
(* ends in a MalformedTemplate failure: it does not return a string, and   *)
(* no end-of-input value is passed to get_date as a directive.             *)
(***************************************************************************)
C6_TrailingPercentMalformed ==
    /\ EOFCHAR \notin Range(passed)
    /\ (pc # "scan" /\ TrailingPercent(format)) => pc = "MalformedTemplate"

(***************************************************************************)
(* C7.  For a record built with GCalendar::new, 'A' and 'a' fail when      *)
(* day_of_week is outside 0..6, and 'B', 'b' and 'h' fail when month is    *)
(* outside 1..12: the outcome is a rejection, not a string.  With the      *)
(* index inside the table the five directives give the English name.       *)
(***************************************************************************)
C7_LookupFailsClosed ==
    (~IsDate /\ out # NoCall) =>
        /\ out.ch \in {"A", "a"} =>
              IF gcal.wday \in 0..6
              THEN out.kind = "str" /\ out.val =
                      (IF out.ch = "A" THEN WeekdayNames ELSE WeekdayAbbrs)[gcal.wday + 1]
              ELSE out.kind # "str"
        /\ out.ch \in {"B", "b", "h"} =>
              IF gcal.month \in 1..12
              THEN out.kind = "str" /\ out.val =
                      (IF out.ch = "B" THEN MonthNames ELSE MonthAbbrs)[gcal.month]
              ELSE out.kind # "str"

(***************************************************************************)
(* Two Dates compared: the one a from_epoch step replaced and the one it   *)
(* made.                                                                   *)
(***************************************************************************)
\* e1 <= e2 as millisecond counts.
EpochLeq(e1, e2) == e1.secs < e2.secs \/ (e1.secs = e2.secs /\ e1.ms <= e2.ms)

\* Seconds from the start of the record's year.
SecondsInYear(r) == ((r.yday * 24 + r.hour) * 60 + r.min) * 60 + r.sec

\* (year, day_of_year, hour, minute, second) of r1 is at most that of r2.
TupleLeq(r1, r2) ==
    r1.year < r2.year \/ (r1.year = r2.year /\ SecondsInYear(r1) <= SecondsInYear(r2))

(***************************************************************************)
(* C11.  Stepping the epoch value forward by exactly one day advances the  *)
(* record by exactly one calendar day: same hour, minute and second, day   *)
(* of week one further mod 7, and (year, day_of_year) either (year,        *)
(* day_of_year + 1) when that is within the year or (year + 1, 0).  From   *)
(* an epoch value to a later one the tuple (year, day_of_year, hour,       *)
(* minute, second) does not decrease, and two epoch values of the same     *)
(* day give the same day_of_year.                                          *)
(***************************************************************************)
C11_DayStep ==
    (IsDate /\ replaced.since_epoch # NoEpoch) =>
        LET e1 == replaced.since_epoch
            r1 == replaced.gcal
        IN  /\ since_epoch = [secs |-> e1.secs + 86400, ms |-> e1.ms] =>
                  /\ gcal.hour = r1.hour
                  /\ gcal.min = r1.min
                  /\ gcal.sec = r1.sec
                  /\ gcal.wday = (r1.wday + 1) % 7
                  /\ IF r1.yday + 1 < GregorianYearLen(r1.year)
                     THEN gcal.year = r1.year /\ gcal.yday = r1.yday + 1
                     ELSE gcal.year = r1.year + 1 /\ gcal.yday = 0
            /\ EpochLeq(e1, since_epoch) => TupleLeq(r1, gcal)
            /\ e1.secs \div 86400 = since_epoch.secs \div 86400 =>
                  gcal.yday = r1.yday

\* The step from the 31st of December of a leap year, day 365, to the first
\* of January of the next year.
C11_Witness ==
    /\ IsDate
    /\ replaced.since_epoch # NoEpoch
    /\ since_epoch.secs = replaced.since_epoch.secs + 86400
    /\ replaced.gcal.yday = 365
    /\ gcal.yday = 0 /\ gcal.year = replaced.gcal.year + 1

\* A later time of the same day: the Date of 1972-02-29T12:00:21.023 replaced
\* by that of the last millisecond of the day.
C11_WitnessSameDay ==
    /\ IsDate
    /\ replaced.since_epoch = [secs |-> 68212821, ms |-> 23]
    /\ since_epoch = [secs |-> 68255999, ms |-> 999]

====
